---------------------------- MODULE Spec2Model ----------------------------
(***************************************************************************)
(* Model of the metainfosci-ui-backend Express/MongoDB service.            *)
(*                                                                         *)
(* Two insights handlers exist in the sources:                             *)
(*   - src/unnamed/part_000: collection public_insights, record addressed  *)
(*     by the field key = 'global', created lazily by getPublicInsightsDoc *)
(*     (handlers PublicGet / PublicUpsert below);                          *)
(*   - src/unnamed/part_001: collection platform_insights, record          *)
(*     addressed by _id = 'public_metrics', optional bearer-token gate     *)
(*     (handlers PlatformGet / PlatformUpsert below).                      *)
(* Every await on a storage call is one atomic step of the store; the      *)
(* synchronous code up to the next await belongs to that step.             *)
(***************************************************************************)
EXTENDS Integers, Sequences, FiniteSets, TLC

\* ------------------------------------------------------------------ bounds
NumReqs == 2       \* request slots that may be in flight at once
MaxCount == 2      \* largest integer counter a client submits
MaxClock == 1      \* largest reading of the wall clock
MaxUsers == 2      \* ObjectIds the driver hands out to the users collection
MaxSeedRuns == 2   \* runs of the seed script

\* --------------------------------------------------------------- JS values
\* A finite double is written in halves: Fin(3) is 1.5, Fin(4) is 2.
Fin(h) == [k |-> "num", h |-> h]
NaN == [k |-> "NaN"]
PosInf == [k |-> "Infinity"]
NegInf == [k |-> "-Infinity"]
Null == [k |-> "null"]
Undefined == [k |-> "undefined"]
Bool(b) == [k |-> "boolean", b |-> b]
Str(s) == [k |-> "string", s |-> s]
Date(t) == [k |-> "date", t |-> t]

IsNumber(v) == v.k \in {"num", "NaN", "Infinity", "-Infinity"}

\* JS relational a > b on numbers (false whenever an operand is NaN).
Gt(a, b) ==
  CASE a.k = "NaN" \/ b.k = "NaN" -> FALSE
    [] a.k = "Infinity" -> b.k # "Infinity"
    [] a.k = "-Infinity" -> FALSE
    [] b.k = "Infinity" -> FALSE
    [] b.k = "-Infinity" -> TRUE
    [] OTHER -> a.h > b.h

Ge(a, b) ==
  CASE a.k = "NaN" \/ b.k = "NaN" -> FALSE
    [] OTHER -> Gt(a, b) \/ a = b

\* StringToNumber of the ECMAScript Number() conversion, on the strings used.
StringToNumber(s) ==
  CASE s = "" -> Fin(0)
    [] s = "2" -> Fin(4)
    [] s = "Infinity" -> PosInf
    [] OTHER -> NaN

\* Number(val)
ToNumber(val) ==
  CASE val.k = "undefined" -> NaN
    [] val.k = "null" -> Fin(0)
    [] val.k = "boolean" -> IF val.b THEN Fin(2) ELSE Fin(0)
    [] val.k = "string" -> StringToNumber(val.s)
    [] OTHER -> val

IsFinite(n) == n.k = "num"

IsNaN(n) == n.k = "NaN"

toNumberOrZero(val) ==
  LET n == ToNumber(val) IN IF IsFinite(n) /\ Ge(n, Fin(0)) THEN n ELSE Fin(0)

\* x || 0 on a number: 0 and NaN are falsy.
OrZero(n) == IF n = Fin(0) \/ n.k = "NaN" THEN Fin(0) ELSE n

\* JSON.stringify of a number inside res.json: non-finite numbers become null.
JsonNumber(n) == IF IsFinite(n) THEN n ELSE Null

\* { $set: upd } applied to a document.
SetFields(doc, upd) ==
  [f \in (DOMAIN doc) \cup (DOMAIN upd) |->
     IF f \in DOMAIN upd THEN upd[f] ELSE doc[f]]

\* ------------------------------------------------------------------ inputs
NatInputs == {Fin(2 * n) : n \in 0..MaxCount}

GarbageInputs ==
  {Fin(0 - 2), Fin(3), PosInf, NegInf, Str("abc"), Str("2"), Undefined, Null,
   Bool(TRUE)}

BodyInputs == NatInputs \cup GarbageInputs

Secret == "s3cret"

AuthHeaders == {"", "Bearer s3cret", "Bearer wrong"}

\* authHeader.startsWith('Bearer ') ? authHeader.substring(7) : ''
BearerToken(authHeader) ==
  CASE authHeader = "Bearer s3cret" -> "s3cret"
    [] authHeader = "Bearer wrong" -> "wrong"
    [] OTHER -> ""

\* ------------------------------------------------------------------- state
VARIABLES
  deployed,          \* which source file is the running server: both register the same routes
  upsertToken,       \* process.env.UPSERT_TOKEN ("" when unset)
  server,            \* the process: init, the db handle, the client's connection, listen, SIGINT
  insights,          \* collection public_insights: the documents with key 'global', in natural order
  platformInsights,  \* collection platform_insights: the document with _id 'public_metrics', or NoDoc
  clock,             \* the wall clock read by new Date()
  users,             \* collection users, in natural order
  nextId,            \* the next ObjectId the driver generates
  req,               \* per request slot: the handler's position, locals and response
  db,                \* the collections gallery_events, event_categories, team_members, user_manuals, in natural order
  seed,              \* the seed script: its position and the runs started so far
  maxSeen,           \* field-wise maximum of the coerced pairs the merge has been given so far
  cleanOnly          \* every body given to the merge so far held two non-negative integers

env == <<deployed, upsertToken, server>>

history == <<maxSeen, cleanOnly>>

userStore == <<users, nextId>>

content == <<db, seed>>

vars == <<deployed, upsertToken, server, insights, platformInsights, users, nextId,
          db, seed, clock, req, maxSeen, cleanOnly>>

Reqs == 1..NumReqs

\* The process as node starts it: client built, db = null, init() called.
Starting ==
  [proc |-> "running", init |-> "connect", conn |-> "connecting", db |-> "null",
   listening |-> FALSE, sigint |-> "none"]

\* A step of the process itself: no collection and no request changes.
ProcessStep(next) ==
  /\ server.proc = "running"
  /\ server' = next
  /\ UNCHANGED <<deployed, upsertToken, content, userStore, insights,
                 platformInsights, clock, req, history>>

\* init(): client.connect() resolves, db is assigned, and the then callback
\* calls app.listen in the same turn.
ConnectResolves ==
  /\ server.init = "connect"
  /\ server.conn = "connecting"
  /\ ProcessStep(SetFields(server, [init |-> "done", conn |-> "open", db |-> "set",
                                     listening |-> TRUE]))

\* init(): client.connect() rejects, the catch calls process.exit(1).
ConnectRejects ==
  /\ server.init = "connect"
  /\ ProcessStep(SetFields(server,
       [proc |-> "exited(1)",
        conn |-> IF server.conn = "closed" THEN "closed" ELSE "failed"]))

\* SIGINT: the handler calls client.close() and awaits it.
Sigint ==
  /\ server.sigint = "none"
  /\ ProcessStep(SetFields(server, [sigint |-> "closing"]))

\* client.close() resolves.
CloseResolves ==
  /\ server.sigint = "closing"
  /\ ProcessStep(SetFields(server, [sigint |-> "closed", conn |-> "closed"]))

\* client.close() throws: catch (e) {} swallows the error.
CloseThrows ==
  /\ server.sigint = "closing"
  /\ ProcessStep(SetFields(server, [sigint |-> "threw"]))

\* A SIGINT handler that exits without awaiting client.close().
SigintExitAtOnce ==
  /\ server.sigint = "closing"
  /\ ProcessStep(SetFields(server, [proc |-> "exited(0)"]))

\* process.exit(0) after the await.
SigintExit ==
  /\ server.sigint \in {"closed", "threw"}
  /\ ProcessStep(SetFields(server, [proc |-> "exited(0)"]))


\* The process once init() has resolved and app.listen has been called.
Serving ==
  [proc |-> "running", init |-> "done", conn |-> "open", db |-> "set",
   listening |-> TRUE, sigint |-> "none"]

NoDoc == [k |-> "absent"]

Idle == [pc |-> "idle", route |-> "none"]

Collections == {"gallery_events", "event_categories", "team_members", "user_manuals"}

\* Every collection empty, the seed script not started.
ContentEmpty ==
  /\ db = [c \in Collections |-> <<>>]
  /\ seed = [pc |-> "off", runs |-> 0]

InsightsInit ==
  /\ deployed \in {"part_000", "part_001"}
  /\ upsertToken \in {"", Secret}
  /\ server = Serving
  /\ insights = <<>>
  /\ platformInsights = NoDoc
  /\ users = <<>>
  /\ nextId = 1
  /\ ContentEmpty
  /\ clock = 0
  /\ req = [p \in Reqs |-> Idle]
  /\ maxSeen = [total_users |-> Fin(0), total_publications |-> Fin(0)]
  /\ cleanOnly = TRUE

Tick ==
  /\ clock < MaxClock
  /\ clock' = clock + 1
  /\ UNCHANGED <<env, content, userStore, insights, platformInsights, req, history>>

InFlight == {p \in Reqs : req[p].pc # "idle"}

MaxNum(a, b) == IF Gt(b, a) THEN b ELSE a

\* Bookkeeping of what the merge has been given, for the convergence properties.
Submit(rawU, rawP, incU, incP) ==
  /\ maxSeen' = [total_users |-> MaxNum(maxSeen.total_users, incU),
                 total_publications |-> MaxNum(maxSeen.total_publications, incP)]
  /\ cleanOnly' = (cleanOnly /\ rawU \in NatInputs /\ rawP \in NatInputs)

\* The response has been sent: the slot is free for the next request.
Close(p) ==
  /\ req[p].pc = "done"
  /\ req' = [req EXCEPT ![p] = Idle]
  /\ UNCHANGED <<env, content, userStore, insights, platformInsights, clock, history>>

\* ------------------------------------ part_000: collection public_insights
InitDoc(t) ==
  [key |-> "global", total_users |-> Fin(0), total_publications |-> Fin(0),
   updatedAt |-> Date(t), source |-> "init"]

\* insights.findOne({ key: 'global' }): the first match in natural order.
FindGlobal == IF insights = <<>> THEN NoDoc ELSE insights[1]

\* insights.updateOne({ key: 'global' }, { $set: upd }): the first match.
UpdateGlobal(upd) ==
  IF insights = <<>> THEN insights
  ELSE [insights EXCEPT ![1] = SetFields(@, upd)]

PublicGetBegin(p) ==
  /\ deployed = "part_000"
  /\ req[p].pc = "idle"
  /\ req' = [req EXCEPT ![p] = [pc |-> "find", route |-> "PublicGet"]]
  /\ UNCHANGED <<env, content, userStore, insights, platformInsights, clock, history>>

PublicUpsertBegin(p, auth, rawU, rawP) ==
  /\ deployed = "part_000"
  /\ req[p].pc = "idle"
  /\ LET incomingUsers == toNumberOrZero(rawU)
         incomingPubs == toNumberOrZero(rawP)
     IN /\ req' = [req EXCEPT ![p] =
                     [pc |-> "find", route |-> "PublicUpsert", auth |-> auth,
                      rawU |-> rawU, rawP |-> rawP,
                      incomingUsers |-> incomingUsers,
                      incomingPubs |-> incomingPubs,
                      now |-> Date(clock), wrote |-> FALSE]]
        /\ Submit(rawU, rawP, incomingUsers, incomingPubs)
  /\ UNCHANGED <<env, content, userStore, insights, platformInsights, clock>>

PublicGetResponse(doc) ==
  [status |-> 200,
   total_users |-> toNumberOrZero(doc.total_users),
   total_publications |-> toNumberOrZero(doc.total_publications),
   updated_at |-> doc.updatedAt]

\* PublicUpdates staging every counter that differs (last writer wins).
PublicUpdatesLastWins(r, doc) ==
  LET setUsers == IF r.incomingUsers # toNumberOrZero(doc.total_users)
               THEN [total_users |-> r.incomingUsers] ELSE <<>>
      setPubs == IF r.incomingPubs # toNumberOrZero(doc.total_publications)
              THEN [total_publications |-> r.incomingPubs] ELSE <<>>
  IN SetFields(setUsers, setPubs)

\* PublicUpdates comparing with >= instead of >.
PublicUpdatesOnEqual(r, doc) ==
  LET setUsers == IF Ge(r.incomingUsers, toNumberOrZero(doc.total_users))
               THEN [total_users |-> r.incomingUsers] ELSE <<>>
      setPubs == IF Ge(r.incomingPubs, toNumberOrZero(doc.total_publications))
              THEN [total_publications |-> r.incomingPubs] ELSE <<>>
  IN SetFields(setUsers, setPubs)

\* The staged $set of the upsert, from the record it read.
PublicUpdates(r, doc) ==
  LET setUsers == IF Gt(r.incomingUsers, toNumberOrZero(doc.total_users))
               THEN [total_users |-> r.incomingUsers] ELSE <<>>
      setPubs == IF Gt(r.incomingPubs, toNumberOrZero(doc.total_publications))
              THEN [total_publications |-> r.incomingPubs] ELSE <<>>
  IN SetFields(setUsers, setPubs)

\* What the handler does once getPublicInsightsDoc has returned doc.
PublicContinue(r, doc) ==
  IF r.route = "PublicGet"
  THEN SetFields(r, [pc |-> "done", resp |-> PublicGetResponse(doc)])
  ELSE LET updates == PublicUpdates(r, doc)
           changed == DOMAIN updates # {}
       IN IF changed
          THEN SetFields(r, [pc |-> "update", doc |-> doc, changed |-> TRUE,
                             updates |-> SetFields(updates,
                                [updatedAt |-> r.now, source |-> "client-upsert"])])
          ELSE SetFields(r, [pc |-> "latest", doc |-> doc, changed |-> FALSE])

\* getPublicInsightsDoc: findOne, and the zero record built when it finds none.
PublicFind(p) ==
  /\ req[p].pc = "find"
  /\ req[p].route \in {"PublicGet", "PublicUpsert"}
  /\ LET doc == FindGlobal
     IN req' = [req EXCEPT ![p] =
                  IF doc = NoDoc
                  THEN SetFields(@, [pc |-> "insert", doc |-> InitDoc(clock)])
                  ELSE PublicContinue(@, doc)]
  /\ UNCHANGED <<env, content, userStore, insights, platformInsights, clock, history>>

\* getPublicInsightsDoc: insertOne of the zero record.
PublicInsert(p) ==
  /\ req[p].pc = "insert"
  /\ req[p].route \in {"PublicGet", "PublicUpsert"}
  /\ insights' = Append(insights, req[p].doc)
  /\ req' = [req EXCEPT ![p] = PublicContinue(@, @.doc)]
  /\ UNCHANGED <<env, content, userStore, platformInsights, clock, history>>

PublicUpdate(p) ==
  /\ req[p].pc = "update"
  /\ req[p].route = "PublicUpsert"
  /\ insights' = UpdateGlobal(req[p].updates)
  /\ req' = [req EXCEPT ![p] = SetFields(@, [pc |-> "latest", wrote |-> TRUE])]
  /\ UNCHANGED <<env, content, userStore, platformInsights, clock, history>>

PublicUpsertResponse(changed, latest) ==
  [status |-> 200, success |-> TRUE, updated |-> Bool(changed),
   total_users |-> toNumberOrZero(latest.total_users),
   total_publications |-> toNumberOrZero(latest.total_publications),
   updated_at |-> latest.updatedAt]

PublicLatest(p) ==
  /\ req[p].pc = "latest"
  /\ FindGlobal # NoDoc
  /\ req' = [req EXCEPT ![p] =
               SetFields(@, [pc |-> "done",
                             resp |-> PublicUpsertResponse(@.changed, FindGlobal)])]
  /\ UNCHANGED <<env, content, userStore, insights, platformInsights, clock, history>>

\* ---------------------------------- part_001: collection platform_insights
PlatformGetBegin(p) ==
  /\ deployed = "part_001"
  /\ req[p].pc = "idle"
  /\ req' = [req EXCEPT ![p] = [pc |-> "find", route |-> "PlatformGet"]]
  /\ UNCHANGED <<env, content, userStore, insights, platformInsights, clock, history>>

\* PlatformGetResponse answering the defaults whatever is stored.
PlatformGetResponseDefaults(doc) ==
  [status |-> 200, total_users |-> Fin(0), total_publications |-> Fin(0),
   updated_at |-> Null]

PlatformGetResponse(doc) ==
  IF doc = NoDoc
  THEN [status |-> 200, total_users |-> Fin(0), total_publications |-> Fin(0),
        updated_at |-> Null]
  ELSE [status |-> 200, total_users |-> JsonNumber(doc.total_users),
        total_publications |-> JsonNumber(doc.total_publications),
        updated_at |-> doc.updatedAt]

PlatformGetFind(p) ==
  /\ req[p].pc = "find"
  /\ req[p].route = "PlatformGet"
  /\ req' = [req EXCEPT ![p] =
               SetFields(@, [pc |-> "done",
                             resp |-> PlatformGetResponse(platformInsights)])]
  /\ UNCHANGED <<env, content, userStore, insights, platformInsights, clock, history>>

\* The optional bearer token guard: TRUE when the request may proceed.
PassesGate(requiredToken, authHeader) ==
  requiredToken = "" \/ BearerToken(authHeader) = requiredToken

PlatformUpsertBegin(p, auth, rawU, rawP) ==
  /\ deployed = "part_001"
  /\ req[p].pc = "idle"
  /\ IF ~PassesGate(upsertToken, auth)
     THEN /\ req' = [req EXCEPT ![p] =
                       [pc |-> "done", route |-> "PlatformUpsert", auth |-> auth,
                        rawU |-> rawU, rawP |-> rawP, wrote |-> FALSE,
                        resp |-> [status |-> 401, error |-> "Unauthorized"]]]
          /\ UNCHANGED history
     ELSE LET incUsers == ToNumber(rawU)
              incPubs == ToNumber(rawP)
          IN /\ req' = [req EXCEPT ![p] =
                          [pc |-> "find", route |-> "PlatformUpsert",
                           auth |-> auth, rawU |-> rawU, rawP |-> rawP,
                           incUsers |-> incUsers, incPubs |-> incPubs,
                           wrote |-> FALSE]]
             /\ Submit(rawU, rawP, toNumberOrZero(rawU), toNumberOrZero(rawP))
  /\ UNCHANGED <<env, content, userStore, insights, platformInsights, clock>>

PlatformExisting ==
  IF platformInsights = NoDoc
  THEN [_id |-> "public_metrics", total_users |-> Fin(0),
        total_publications |-> Fin(0), updatedAt |-> Null]
  ELSE platformInsights

\* next = { ...existing }, with each counter the request raises.
PlatformNext(r, existing) ==
  LET setUsers == IF ~IsNaN(r.incUsers) /\ Gt(r.incUsers, OrZero(existing.total_users))
               THEN [total_users |-> r.incUsers] ELSE <<>>
      setPubs == IF ~IsNaN(r.incPubs) /\ Gt(r.incPubs, OrZero(existing.total_publications))
              THEN [total_publications |-> r.incPubs] ELSE <<>>
  IN SetFields(setUsers, setPubs)

PlatformUpsertResponse(next) ==
  [status |-> 200, success |-> TRUE,
   total_users |-> JsonNumber(next.total_users),
   total_publications |-> JsonNumber(next.total_publications),
   updated_at |-> next.updatedAt]

PlatformUpsertFind(p) ==
  /\ req[p].pc = "find"
  /\ req[p].route = "PlatformUpsert"
  /\ LET existing == PlatformExisting
         raised == PlatformNext(req[p], existing)
         changed == DOMAIN raised # {}
         next == IF changed
                 THEN SetFields(SetFields(existing, raised),
                                [updatedAt |-> Date(clock)])
                 ELSE existing
     IN req' = [req EXCEPT ![p] =
                  IF changed
                  THEN SetFields(@, [pc |-> "update", existing |-> existing,
                                     changed |-> TRUE, next |-> next])
                  ELSE SetFields(@, [pc |-> "done", existing |-> existing,
                                     changed |-> FALSE, next |-> next,
                                     resp |-> PlatformUpsertResponse(next)])]
  /\ UNCHANGED <<env, content, userStore, insights, platformInsights, clock, history>>

\* updateOne({ _id }, { $set: { total_users, total_publications, updatedAt } }, { upsert: true })
PlatformSet(next) ==
  SetFields(IF platformInsights = NoDoc THEN [_id |-> "public_metrics"]
            ELSE platformInsights,
            [total_users |-> next.total_users,
             total_publications |-> next.total_publications,
             updatedAt |-> next.updatedAt])

PlatformUpsertUpdate(p) ==
  /\ req[p].pc = "update"
  /\ req[p].route = "PlatformUpsert"
  /\ platformInsights' = PlatformSet(req[p].next)
  /\ req' = [req EXCEPT ![p] =
               SetFields(@, [pc |-> "done", wrote |-> TRUE,
                             resp |-> PlatformUpsertResponse(@.next)])]
  /\ UNCHANGED <<env, content, userStore, insights, clock, history>>

\* ---------------------------------------------------------- specifications
\* A request on any insights route of the deployed server.
InsightsBegin(p, auths, inputs) ==
  \/ PublicGetBegin(p)
  \/ PlatformGetBegin(p)
  \/ \E auth \in auths, rawU \in inputs, rawP \in inputs :
       \/ PublicUpsertBegin(p, auth, rawU, rawP)
       \/ PlatformUpsertBegin(p, auth, rawU, rawP)

InsightsStep(p) ==
  \/ PublicFind(p)
  \/ PublicInsert(p)
  \/ PublicUpdate(p)
  \/ PublicLatest(p)
  \/ PlatformGetFind(p)
  \/ PlatformUpsertFind(p)
  \/ PlatformUpsertUpdate(p)

\* The header of a client that holds the secret.
Authorized == {"Bearer s3cret"}

\* NumReqs requests are handled concurrently; authorized clients submit
\* non-negative integers.
ConcurrentNext ==
  \/ Tick
  \/ \E p \in Reqs : InsightsBegin(p, Authorized, NatInputs) \/ InsightsStep(p)

SpecConcurrent == InsightsInit /\ [][ConcurrentNext]_vars

\* Requests are handled one at a time (each runs to completion before the
\* next starts); authorized clients submit any JSON value.
SerialNext ==
  \/ Tick
  \/ \E p \in Reqs :
       \/ InFlight = {} /\ p = 1 /\ InsightsBegin(p, Authorized, BodyInputs)
       \/ InsightsStep(p)
       \/ Close(p)

Spec == InsightsInit /\ [][SerialNext]_vars

\* Requests are handled one at a time; any client submits non-negative
\* integers, with or without the secret.
GateNext ==
  \/ Tick
  \/ \E p \in Reqs :
       \/ InFlight = {} /\ p = 1 /\ InsightsBegin(p, AuthHeaders, NatInputs)
       \/ InsightsStep(p)
       \/ Close(p)

SpecGate == InsightsInit /\ [][GateNext]_vars

\* One client at a time submits non-negative integers through slot 1 while
\* the other slots serve reads concurrently.
ReadWriteNext ==
  \/ Tick
  \/ \E p \in Reqs :
       \/ /\ p = 1
          /\ \E auth \in Authorized, rawU \in NatInputs, rawP \in NatInputs :
               \/ PublicUpsertBegin(p, auth, rawU, rawP)
               \/ PlatformUpsertBegin(p, auth, rawU, rawP)
       \/ p # 1 /\ (PublicGetBegin(p) \/ PlatformGetBegin(p))
       \/ InsightsStep(p)
       \/ Close(p)

SpecReadWrite == InsightsInit /\ [][ReadWriteNext]_vars

\* ------------------------------------------------------ insights: claims
Zeros == [total_users |-> Fin(0), total_publications |-> Fin(0)]

Counters(doc) ==
  IF doc = NoDoc THEN Zeros
  ELSE [total_users |-> doc.total_users,
        total_publications |-> doc.total_publications]

\* The record the deployed server keeps, NoDoc while there is none.
StoredDoc == IF deployed = "part_000" THEN FindGlobal ELSE platformInsights

Stored == Counters(StoredDoc)

StoredUpdatedAt == IF StoredDoc = NoDoc THEN Null ELSE StoredDoc.updatedAt

UpsertRoutes == {"PublicUpsert", "PlatformUpsert"}

Completed(p) == req[p].pc = "done"

Quiescent == \A p \in Reqs : req[p].pc \in {"idle", "done"}

\* C1: under interleaved cache-upsert requests neither stored counter ever
\* takes a value lower than one it held earlier.
C1_CountersNeverDecrease ==
  [][/\ ~Gt(Stored.total_users, Stored'.total_users)
     /\ ~Gt(Stored.total_publications, Stored'.total_publications)]_vars

\* C2: when upserts run one at a time and every submitted pair holds
\* non-negative integers, the stored counters after any sequence of them are
\* the field-wise maximum of zero and all submitted pairs.
C2_SerialMergeIsMax == (Quiescent /\ cleanOnly) => Stored = maxSeen

\* A lower pair was submitted after a higher one was stored, and was absorbed.
C2_Witness ==
  \E p \in Reqs :
    /\ Completed(p) /\ req[p].route \in UpsertRoutes /\ cleanOnly
    /\ ~req[p].wrote
    /\ req[p].rawU = Fin(2) /\ req[p].rawP = Fin(0)
    /\ Stored = [total_users |-> Fin(4), total_publications |-> Fin(2)]

\* C3: once all concurrently issued upserts have completed, the stored
\* counters equal the field-wise maximum of all values submitted.
C3_ConcurrentConvergesToMax == Quiescent => Stored = maxSeen

\* What a request of part_000 compares its values against: the record it
\* read, or before its read the record it is about to read.
Baseline(r) == Counters(IF "doc" \in DOMAIN r THEN r.doc ELSE FindGlobal)

NotAbove(r, base) ==
  /\ ~Gt(r.incomingUsers, base.total_users)
  /\ ~Gt(r.incomingPubs, base.total_publications)

\* A step of slot p as a part_000 upsert whose values do not exceed the
\* stored ones.
NoIncreaseStep(p) ==
  /\ req'[p] # req[p]
  /\ req'[p].route = "PublicUpsert"
  /\ NotAbove(req'[p], Baseline(req'[p]))

ReportsNoUpdate(r) == r.pc = "done" => r.resp.updated = Bool(FALSE)

\* C4 as stated: an upsert whose coerced values are both lower than or equal
\* to the stored ones (an absent record counting as zeros) performs no
\* storage write at all and reports updated = false.
C4_NoWriteAtAll ==
  [][\A p \in Reqs :
       NoIncreaseStep(p) => insights' = insights /\ ReportsNoUpdate(req'[p])]_vars

\* C4 as amended: such an upsert never updates the record and reports
\* updated = false; its only possible write is the lazy insertion of the
\* zero record by getPublicInsightsDoc when the collection holds none.
C4_NoUpdateOnlyLazyInsert ==
  [][\A p \in Reqs :
       NoIncreaseStep(p) =>
         /\ \/ insights' = insights
            \/ /\ insights = <<>>
               /\ req[p].pc = "insert"
               /\ insights' = <<InitDoc(req[p].doc.updatedAt.t)>>
         /\ ReportsNoUpdate(req'[p])]_vars

\* The same pair submitted again at a later time: no write, no new timestamp.
C4_Witness ==
  \E p \in Reqs :
    /\ Completed(p) /\ req[p].route = "PublicUpsert"
    /\ req[p].incomingUsers = Fin(4) /\ req[p].incomingPubs = Fin(2)
    /\ Counters(req[p].doc) = [total_users |-> Fin(4), total_publications |-> Fin(2)]
    /\ req[p].resp.updated = Bool(FALSE)
    /\ req[p].now = Date(1)
    /\ insights[1].updatedAt = Date(0)

\* Non-numeric, negative or non-finite after the Number() coercion.
IsGarbage(raw) ==
  LET n == ToNumber(raw) IN ~IsFinite(n) \/ Gt(Fin(0), n)

\* The record an upsert read.
Seen(r) == Counters(IF r.route = "PublicUpsert" THEN r.doc ELSE r.existing)

IsCount(n) == IsFinite(n) /\ Ge(n, Fin(0))

\* C5: a non-numeric, negative or non-finite field value is treated exactly
\* as zero: the request is not rejected, the field is compared as 0 (so the
\* stored value stays what it was), and no such value is ever stored.
C5_GarbageTreatedAsZero ==
  /\ IsCount(Stored.total_users)
  /\ IsCount(Stored.total_publications)
  /\ \A p \in Reqs :
       (Completed(p) /\ req[p].route \in UpsertRoutes) =>
         /\ req[p].resp.status = 200
         /\ IsGarbage(req[p].rawU) => Stored.total_users = Seen(req[p]).total_users
         /\ IsGarbage(req[p].rawP) =>
              Stored.total_publications = Seen(req[p]).total_publications

\* C6: the collection of the lazily created record holds at most one record
\* for the singleton key, and exactly one once a read or upsert has completed.
C6_ExactlyOneRecord ==
  /\ Len(insights) <= 1
  /\ (deployed = "part_000" /\ \E p \in Reqs : Completed(p)) => Len(insights) = 1

\* C7: with a secret configured, an upsert whose Authorization header is not
\* exactly 'Bearer <secret>' is answered 401 and writes nothing; without a
\* secret every request passes the gate.
C7_GateRejectsWithoutSecret ==
  \A p \in Reqs :
    (Completed(p) /\ req[p].route \in UpsertRoutes) =>
      /\ (upsertToken # "" /\ req[p].auth # "Bearer s3cret") =>
           (req[p].resp.status = 401 /\ ~req[p].wrote)
      /\ upsertToken = "" => req[p].resp.status # 401

\* The gate of part_001 alone: 401 without a write exactly when a secret is
\* configured and the header does not carry it.
PlatformGateHolds ==
  \A p \in Reqs :
    (Completed(p) /\ req[p].route = "PlatformUpsert") =>
      IF upsertToken # "" /\ req[p].auth # "Bearer s3cret"
      THEN req[p].resp.status = 401 /\ ~req[p].wrote /\ "existing" \notin DOMAIN req[p]
      ELSE req[p].resp.status = 200

\* C8: the upsert response carries the post-merge record: its counters and
\* timestamp are the stored ones and its write indicator tells whether this
\* request wrote.
C8_ResponseIsPostMerge ==
  \A p \in Reqs :
    (Completed(p) /\ req[p].route \in UpsertRoutes /\ req[p].resp.status = 200) =>
      /\ req[p].resp.total_users = Stored.total_users
      /\ req[p].resp.total_publications = Stored.total_publications
      /\ req[p].resp.updated_at = StoredUpdatedAt
      /\ "updated" \in DOMAIN req[p].resp
      /\ req[p].resp.updated = Bool(req[p].wrote)

GetRoutes == {"PublicGet", "PlatformGet"}

\* A step of slot p as a read request.
ReadStep(p) == req'[p] # req[p] /\ req'[p].route \in GetRoutes

ShowsCounters(resp, counters) ==
  /\ resp.status = 200
  /\ resp.total_users = counters.total_users
  /\ resp.total_publications = counters.total_publications

NoUpsertInFlight ==
  \A p \in Reqs : req[p].route \in UpsertRoutes => Completed(p)

\* C16: the read answers the stored counters and timestamp as of its lookup,
\* zeros when the lookup finds no record; no step of a read changes a stored
\* counter, and with reads interleaved no increase of an upsert is lost:
\* whenever no upsert is in flight the store holds the maximum submitted.
C16_ReadShowsStoreAndKeepsIt ==
  /\ [](NoUpsertInFlight => Stored = maxSeen)
  /\ [][\A p \in Reqs :
          ReadStep(p) =>
            /\ Stored' = Stored
            /\ (req[p].pc = "find" /\ req'[p].pc = "done") =>
                 /\ ShowsCounters(req'[p].resp, Stored)
                 /\ req'[p].resp.updated_at = StoredUpdatedAt
            /\ (req[p].pc = "find" /\ StoredDoc = NoDoc /\ req'[p].pc # "done") =>
                 req'[p].pc = "insert"
            /\ (req[p].pc = "insert" /\ req'[p].pc = "done") =>
                 ShowsCounters(req'[p].resp, Zeros)]_vars

\* A read that found no record answered zeros and inserted the zero record
\* behind the one an upsert had created and raised in between.
C16_Witness ==
  \E p \in Reqs :
    /\ Completed(p) /\ req[p].route = "PublicGet"
    /\ ShowsCounters(req[p].resp, Zeros)
    /\ Len(insights) = 2
    /\ Stored.total_users = Fin(4)
    /\ Stored = maxSeen

\* The pair an upsert compares against the record it read.
Incoming(r) ==
  IF r.route = "PublicUpsert"
  THEN [total_users |-> r.incomingUsers, total_publications |-> r.incomingPubs]
  ELSE [total_users |-> r.incUsers, total_publications |-> r.incPubs]

\* The storage write of the upsert in slot p.
WriteStep(p) ==
  /\ req[p].route \in UpsertRoutes
  /\ req[p].pc = "update"
  /\ req'[p].pc # "update"

\* C18: an upsert whose value exceeds the record it read for only one of the
\* two counters writes only that counter: its write leaves the other stored
\* counter as it is, whatever other upserts wrote since the read.
C18_WritesOnlyRaisedCounter ==
  [][\A p \in Reqs :
       WriteStep(p) =>
         LET in == Incoming(req[p])
             seen == Seen(req[p])
         IN /\ ~Gt(in.total_publications, seen.total_publications) =>
                 Stored'.total_publications = Stored.total_publications
            /\ ~Gt(in.total_users, seen.total_users) =>
                 Stored'.total_users = Stored.total_users]_vars

\* The provenance marker of the stored record.
Marker(doc) ==
  IF doc = NoDoc \/ "source" \notin DOMAIN doc THEN "none" ELSE doc.source

\* C19: the write of an upsert that increases a counter applies, in the same
\* step, the request's fresh updatedAt and the provenance marker.
C19_IncreaseCarriesTimestampAndMarker ==
  [][\A p \in Reqs :
       (/\ WriteStep(p)
        /\ \/ Gt(Stored'.total_users, Stored.total_users)
           \/ Gt(Stored'.total_publications, Stored.total_publications)) =>
         /\ StoredUpdatedAt' \in {Date(t) : t \in 0..clock}
         /\ StoredUpdatedAt' = IF req[p].route = "PublicUpsert"
                               THEN req[p].now ELSE req[p].next.updatedAt
         /\ Marker(StoredDoc') = "client-upsert"]_vars

\* A non-negative integer.
IsNatCount(n) == IsCount(n) /\ n.h % 2 = 0

\* C20: the stored counters are non-negative integers in every reachable
\* state, whatever the upserts submitted.
C20_StoredCountersAreNaturals ==
  IsNatCount(Stored.total_users) /\ IsNatCount(Stored.total_publications)

\* ------------------------------------------------------------------ users
\* The string of n copies of the character ch ("" is Repeat("", 0)).
Repeat(ch, n) == [k |-> "string", ch |-> ch, n |-> n]

Lower ==
  {"a", "b", "c", "d", "e", "f", "g", "h", "i", "j", "k", "l", "m", "n", "o",
   "p", "q", "r", "s", "t", "u", "v", "w", "x", "y", "z"}

Upper ==
  {"A", "B", "C", "D", "E", "F", "G", "H", "I", "J", "K", "L", "M", "N", "O",
   "P", "Q", "R", "S", "T", "U", "V", "W", "X", "Y", "Z"}

Digits == {"0", "1", "2", "3", "4", "5", "6", "7", "8", "9"}

\* /^[A-Za-z0-9._-]+$/
UsernamePattern(u) ==
  u.n >= 1 /\ u.ch \in Lower \cup Upper \cup Digits \cup {".", "_", "-"}

isValidUsername(u) ==
  u.k = "string" /\ u.n >= 1 /\ u.n <= 64 /\ UsernamePattern(u)

\* isValidPassword with no upper limit.
isValidPasswordNoMax(pw) == pw.k = "string" /\ pw.n >= 8

isValidPassword(pw) == pw.k = "string" /\ pw.n >= 8 /\ pw.n <= 256

\* bcrypt.hash(pw, 12): one-way, keyed by the first 72 bytes of the password.
BcryptHash(pw) ==
  [k |-> "bcrypt", ch |-> pw.ch, n |-> IF pw.n > 72 THEN 72 ELSE pw.n]

\* bcrypt.compare(pw, hash)
BcryptCompare(pw, hash) == BcryptHash(pw) = hash

ObjectId(i) == [k |-> "ObjectId", i |-> i]

\* The 24 hex digits of an ObjectId, as the id of a response or of a path.
HexString(oid) == [k |-> "string", hex |-> oid.i, n |-> 24]

\* ObjectId.isValid(id) on a path parameter
ObjectIdIsValid(id) == id.k = "string" /\ "hex" \in DOMAIN id /\ id.n = 24

\* new ObjectId(id)
ParseObjectId(id) == ObjectId(id.hex)

\* mapUser handing the stored hash on to the response.
mapUserWithHash(doc) ==
  [id |-> HexString(doc._id), username |-> doc.username,
   createdAt |-> doc.createdAt, updatedAt |-> doc.updatedAt,
   passwordHash |-> doc.passwordHash]

mapUser(doc) ==
  [id |-> HexString(doc._id), username |-> doc.username,
   createdAt |-> doc.createdAt, updatedAt |-> doc.updatedAt]

First(S) == CHOOSE i \in S : \A j \in S : i <= j

\* users.findOne({ username })
FindByUsername(coll, username) ==
  LET Test(d) == d.username = username
      hits == {i \in DOMAIN coll : Test(coll[i])}
  IN IF hits = {} THEN NoDoc ELSE coll[First(hits)]

\* FindOtherByUsername without the _id exclusion.
FindAnyByUsername(coll, username, oid) == FindByUsername(coll, username)

\* users.findOne({ username, _id: { $ne: oid } })
FindOtherByUsername(coll, username, oid) ==
  LET Test(d) == d.username = username /\ d._id # oid
      hits == {i \in DOMAIN coll : Test(coll[i])}
  IN IF hits = {} THEN NoDoc ELSE coll[First(hits)]

IndexOfId(coll, oid) ==
  LET Test(d) == d._id = oid
      hits == {i \in DOMAIN coll : Test(coll[i])}
  IN IF hits = {} THEN 0 ELSE First(hits)

Error(status, message) == [status |-> status, error |-> message]

Respond(r, resp) == SetFields(r, [pc |-> "done", resp |-> resp])

\* Creates that hold or will take an ObjectId.
PendingCreates ==
  {q \in Reqs : req[q].route = "UserCreate" /\ req[q].pc \in {"findName", "insert"}}

\* The ids of the documents of coll that carry the username.
HeldBy(coll, username) ==
  {coll[i]._id : i \in {j \in DOMAIN coll : coll[j].username = username}}

\* Clients stop creating new users once MaxUsers ObjectIds are taken.
MayCreate(username, password) ==
  \/ ~isValidUsername(username)
  \/ ~isValidPassword(password)
  \/ HeldBy(users, username) # {}
  \/ nextId + Cardinality(PendingCreates) <= MaxUsers

\* POST /admin-services/users/: validation, up to the findOne.
UserCreateBegin(p, username, password) ==
  /\ req[p].pc = "idle"
  /\ MayCreate(username, password)
  /\ LET r == [pc |-> "findName", route |-> "UserCreate", username |-> username,
               password |-> password, before |-> users]
     IN req' = [req EXCEPT ![p] =
          IF ~isValidUsername(username)
          THEN Respond(r, Error(400, "Invalid username"))
          ELSE IF ~isValidPassword(password)
          THEN Respond(r, Error(400, "Invalid password (min 8 chars)"))
          ELSE r]
  /\ UNCHANGED <<env, content, userStore, insights, platformInsights, clock, history>>

\* findOne({ username }), then the hash and the document to insert.
UserCreateFind(p) ==
  /\ req[p].pc = "findName"
  /\ req[p].route = "UserCreate"
  /\ req' = [req EXCEPT ![p] =
       IF FindByUsername(users, @.username) # NoDoc
       THEN Respond(@, Error(409, "Username already exists"))
       ELSE SetFields(@, [pc |-> "insert",
              userDoc |-> [username |-> @.username,
                           passwordHash |-> BcryptHash(@.password),
                           createdAt |-> Date(clock),
                           updatedAt |-> Date(clock)]])]
  /\ UNCHANGED <<env, content, userStore, insights, platformInsights, clock, history>>

UserCreateInsert(p) ==
  /\ req[p].pc = "insert"
  /\ req[p].route = "UserCreate"
  /\ LET userDoc == SetFields(req[p].userDoc, [_id |-> ObjectId(nextId)])
     IN /\ users' = Append(users, userDoc)
        /\ req' = [req EXCEPT ![p] =
             Respond(@, [status |-> 201, success |-> TRUE, data |-> mapUser(userDoc)])]
  /\ nextId' = nextId + 1
  /\ UNCHANGED <<env, content, insights, platformInsights, clock, history>>

\* PUT: the password part of the $set, reached once the username is settled.
UserUpdatePassword(r) ==
  IF r.password # Undefined /\ r.password # Repeat("", 0)
  THEN IF ~isValidPassword(r.password)
       THEN Respond(r, Error(400, "Invalid password (min 8 chars)"))
       ELSE SetFields(r, [pc |-> "update",
              set |-> SetFields(r.set, [passwordHash |-> BcryptHash(r.password)])])
  ELSE SetFields(r, [pc |-> "update"])

\* PUT /admin-services/users/:id: validation, up to the first storage call.
UserUpdateBegin(p, id, username, password) ==
  /\ req[p].pc = "idle"
  /\ LET r == [pc |-> "findName", route |-> "UserUpdate", id |-> id,
               username |-> username, password |-> password, before |-> users,
               set |-> [updatedAt |-> Date(clock)]]
     IN req' = [req EXCEPT ![p] =
          IF ~ObjectIdIsValid(id) THEN Respond(r, Error(400, "Invalid id"))
          ELSE IF username # Undefined
          THEN IF ~isValidUsername(username)
               THEN Respond(r, Error(400, "Invalid username"))
               ELSE r
          ELSE UserUpdatePassword(r)]
  /\ UNCHANGED <<env, content, userStore, insights, platformInsights, clock, history>>

UserUpdateFind(p) ==
  /\ req[p].pc = "findName"
  /\ req[p].route = "UserUpdate"
  /\ req' = [req EXCEPT ![p] =
       IF FindOtherByUsername(users, @.username, ParseObjectId(@.id)) # NoDoc
       THEN Respond(@, Error(409, "Username already exists"))
       ELSE UserUpdatePassword(
              SetFields(@, [set |-> SetFields(@.set, [username |-> @.username])]))]
  /\ UNCHANGED <<env, content, userStore, insights, platformInsights, clock, history>>

\* findOneAndUpdate({ _id }, { $set }, { returnDocument: 'after' })
UserUpdateApply(p) ==
  /\ req[p].pc = "update"
  /\ req[p].route = "UserUpdate"
  /\ LET i == IndexOfId(users, ParseObjectId(req[p].id))
     IN IF i = 0
        THEN /\ req' = [req EXCEPT ![p] = Respond(@, Error(404, "User not found"))]
             /\ UNCHANGED users
        ELSE /\ users' = [users EXCEPT ![i] = SetFields(@, req[p].set)]
             /\ req' = [req EXCEPT ![p] =
                  Respond(@, [status |-> 200, success |-> TRUE,
                              data |-> mapUser(users'[i])])]
  /\ UNCHANGED <<env, content, nextId, insights, platformInsights, clock, history>>

\* find({}).sort({ createdAt: -1 }).toArray(): the documents created at time
\* t or earlier, newest first, documents of one time in natural order.
RECURSIVE NewestFirst(_, _)
NewestFirst(coll, t) ==
  IF t < 0 THEN <<>>
  ELSE SelectSeq(coll, LAMBDA d : d.createdAt = Date(t)) \o NewestFirst(coll, t - 1)

\* GET /admin-services/users/
UserListBegin(p) ==
  /\ req[p].pc = "idle"
  /\ req' = [req EXCEPT ![p] = [pc |-> "find", route |-> "UserList", before |-> users]]
  /\ UNCHANGED <<env, content, userStore, insights, platformInsights, clock, history>>

UserListFind(p) ==
  /\ req[p].pc = "find"
  /\ req[p].route = "UserList"
  /\ LET docs == NewestFirst(users, MaxClock)
     IN req' = [req EXCEPT ![p] =
          Respond(@, [status |-> 200,
                      body |-> [i \in DOMAIN docs |-> mapUser(docs[i])]])]
  /\ UNCHANGED <<env, content, userStore, insights, platformInsights, clock, history>>

\* The sequence without its i-th element.
RemoveAt(coll, i) ==
  [j \in 1..(Len(coll) - 1) |-> IF j < i THEN coll[j] ELSE coll[j + 1]]

\* DELETE /admin-services/users/:id
UserDeleteBegin(p, id) ==
  /\ req[p].pc = "idle"
  /\ LET r == [pc |-> "delete", route |-> "UserDelete", id |-> id, before |-> users]
     IN req' = [req EXCEPT ![p] =
          IF ~ObjectIdIsValid(id) THEN Respond(r, Error(400, "Invalid id")) ELSE r]
  /\ UNCHANGED <<env, content, userStore, insights, platformInsights, clock, history>>

\* deleteOne({ _id })
UserDeleteApply(p) ==
  /\ req[p].pc = "delete"
  /\ req[p].route = "UserDelete"
  /\ LET i == IndexOfId(users, ParseObjectId(req[p].id))
     IN IF i = 0
        THEN /\ req' = [req EXCEPT ![p] = Respond(@, Error(404, "User not found"))]
             /\ UNCHANGED users
        ELSE /\ users' = RemoveAt(users, i)
             /\ req' = [req EXCEPT ![p] =
                  Respond(@, [status |-> 200, success |-> TRUE, deleted |-> 1])]
  /\ UNCHANGED <<env, content, nextId, insights, platformInsights, clock, history>>

\* LoginOutcome answering 404 when no user has the username.
LoginOutcomeTellsMissing(user, password) ==
  IF user = NoDoc THEN Error(404, "User not found")
  ELSE IF ~BcryptCompare(password, user.passwordHash)
  THEN Error(401, "Invalid credentials")
  ELSE [status |-> 200, success |-> TRUE, data |-> mapUser(user)]

\* The response of the login once findOne has returned user.
LoginOutcome(user, password) ==
  IF user = NoDoc \/ "passwordHash" \notin DOMAIN user
  THEN Error(401, "Invalid credentials")
  ELSE IF ~BcryptCompare(password, user.passwordHash)
  THEN Error(401, "Invalid credentials")
  ELSE [status |-> 200, success |-> TRUE, data |-> mapUser(user)]

\* POST /admin-services/users/login
LoginBegin(p, username, password) ==
  /\ req[p].pc = "idle"
  /\ LET r == [pc |-> "findName", route |-> "Login", username |-> username,
               password |-> password, before |-> users]
     IN req' = [req EXCEPT ![p] =
          IF username.k # "string" \/ password.k # "string"
          THEN Respond(r, Error(400, "username and password are required"))
          ELSE r]
  /\ UNCHANGED <<env, content, userStore, insights, platformInsights, clock, history>>

LoginFind(p) ==
  /\ req[p].pc = "findName"
  /\ req[p].route = "Login"
  /\ req' = [req EXCEPT ![p] =
       Respond(@, LoginOutcome(FindByUsername(users, @.username), @.password))]
  /\ UNCHANGED <<env, content, userStore, insights, platformInsights, clock, history>>

\* ------------------------------ gallery events, team members, user manuals
\* The field whose presence create checks.
RequiredField(c) == IF c = "team_members" THEN "name" ELSE "title"

NotFound(c) ==
  CASE c = "gallery_events" -> "Event not found"
    [] c = "team_members" -> "Team member not found"
    [] OTHER -> "Manual not found"

\* The allowlists of the three PUT handlers.
Allowed(c) ==
  CASE c = "gallery_events" ->
         {"title", "description", "date", "end_date", "location", "images",
          "category", "link", "status", "attendees"}
    [] c = "team_members" ->
         {"name", "affiliation", "position1", "position2", "avatar_url",
          "scholar_url", "linkedin_url", "position1_link", "position2_link",
          "affiliation_link", "order", "published"}
    [] OTHER ->
         {"title", "description", "video_url", "thumbnail_url",
          "manual_pdf_url", "order", "published"}

\* payload.key, undefined when the body has no such key.
Field(payload, key) == IF key \in DOMAIN payload THEN payload[key] ELSE Undefined

\* !!v
Truthy(v) ==
  CASE v.k \in {"undefined", "null", "NaN"} -> FALSE
    [] v.k = "boolean" -> v.b
    [] v.k = "num" -> v.h # 0
    [] v.k = "string" -> v.s # ""
    [] OTHER -> TRUE

\* Number.isFinite(Number(payload.order)) ? Number(payload.order) : 0
OrderOf(payload) ==
  LET n == ToNumber(Field(payload, "order")) IN IF IsFinite(n) THEN n ELSE Fin(0)

\* payload.published !== undefined ? !!payload.published : true
PublishedOf(payload) ==
  IF Field(payload, "published") # Undefined
  THEN Bool(Truthy(Field(payload, "published")))
  ELSE Bool(TRUE)

\* typeof payload.description === 'string' ? payload.description : ''
\* (for an event: payload.description || '')
DescriptionOf(c, payload) ==
  LET v == Field(payload, "description")
  IN IF c = "gallery_events"
     THEN IF Truthy(v) THEN v ELSE Str("")
     ELSE IF v.k = "string" THEN v ELSE Str("")

\* The document that create builds; the optional text fields are
\* represented by description.
NewDoc(c, payload, now) ==
  LET named == [f \in {RequiredField(c)} |-> payload[f]]
      stamps == [createdAt |-> now, updatedAt |-> now]
      text == [description |-> DescriptionOf(c, payload)]
  IN IF c = "gallery_events"
     THEN SetFields(SetFields(named, text), stamps)
     ELSE SetFields(SetFields(SetFields(named, text),
                              [order |-> OrderOf(payload),
                               published |-> PublishedOf(payload)]),
                    stamps)

\* A $set built from every key of the body, allowlisted or not.
UpdateSetAnyKey(c, payload, now) ==
  SetFields([updatedAt |-> now],
            [key \in DOMAIN payload |->
               IF key = "order" /\ c # "gallery_events"
               THEN ToNumber(payload[key]) ELSE payload[key]])

\* The $set that update builds from the allowlisted keys of the body.
UpdateSet(c, payload, now) ==
  SetFields([updatedAt |-> now],
            [key \in Allowed(c) \cap DOMAIN payload |->
               IF key = "order" /\ c # "gallery_events"
               THEN ToNumber(payload[key]) ELSE payload[key]])

\* mapEvent: _id becomes id, the rest passes through.
mapEvent(doc) ==
  [f \in (DOMAIN doc \ {"_id"}) \cup {"id"} |->
     IF f = "id" THEN HexString(doc._id) ELSE doc[f]]

mapTeamMember(doc) == mapEvent(doc)

mapManual(doc) == mapEvent(doc)

\* The order of two sort keys in a MongoDB sort: NaN before every number.
OrderLess(a, b) ==
  IF a.k = "NaN" THEN b.k # "NaN" ELSE IF b.k = "NaN" THEN FALSE ELSE Gt(b, a)

\* sort({ order: 1, createdAt: -1 }): a comes before b.
Precedes(a, b) ==
  \/ OrderLess(a.order, b.order)
  \/ a.order = b.order /\ a.createdAt.t > b.createdAt.t

\* doc put into a sorted sequence, behind the documents it does not precede.
RECURSIVE InsertSorted(_, _)
InsertSorted(sorted, doc) ==
  IF sorted = <<>> THEN <<doc>>
  ELSE IF Precedes(doc, Head(sorted)) THEN <<doc>> \o sorted
  ELSE <<Head(sorted)>> \o InsertSorted(Tail(sorted), doc)

RECURSIVE ByOrder(_)
ByOrder(coll) ==
  IF coll = <<>> THEN <<>>
  ELSE InsertSorted(ByOrder(SubSeq(coll, 1, Len(coll) - 1)), coll[Len(coll)])

\* find(filter).sort(...).toArray() of the list handlers.
Listing(c, public) ==
  LET found == IF public
               THEN SelectSeq(db[c], LAMBDA d : d.published = Bool(TRUE))
               ELSE db[c]
  IN IF c = "gallery_events" THEN NewestFirst(found, MaxClock) ELSE ByOrder(found)

\* The server generates ObjectIds while it has some left.
IdsLeft == nextId <= MaxUsers

\* POST: validation of the required field, up to insertOne.
ContentCreateBegin(p, c, payload) ==
  /\ req[p].pc = "idle"
  /\ LET title == Field(payload, RequiredField(c))
         valid == Truthy(title) /\ title.k = "string"
         r == [pc |-> "insert", route |-> "Create", coll |-> c,
               payload |-> payload, before |-> db[c]]
     IN /\ valid => IdsLeft
        /\ req' = [req EXCEPT ![p] =
             IF ~valid
             THEN Respond(r, Error(400, IF c = "team_members" THEN "name is required"
                                        ELSE "title is required"))
             ELSE SetFields(r, [doc |-> NewDoc(c, payload, Date(clock))])]
  /\ UNCHANGED <<env, content, userStore, insights, platformInsights, clock, history>>

ContentInsert(p) ==
  /\ req[p].pc = "insert"
  /\ req[p].route = "Create"
  /\ LET c == req[p].coll
         doc == SetFields(req[p].doc, [_id |-> ObjectId(nextId)])
     IN /\ db' = [db EXCEPT ![c] = Append(@, doc)]
        /\ req' = [req EXCEPT ![p] =
             Respond(@, [status |-> 201, success |-> TRUE, data |-> mapEvent(doc)])]
  /\ nextId' = nextId + 1
  /\ UNCHANGED <<env, seed, users, insights, platformInsights, clock, history>>

\* PUT: id check and $set, up to findOneAndUpdate.
ContentUpdateBegin(p, c, id, payload) ==
  /\ req[p].pc = "idle"
  /\ LET r == [pc |-> "update", route |-> "Update", coll |-> c, id |-> id,
               payload |-> payload, before |-> db[c]]
     IN req' = [req EXCEPT ![p] =
          IF ~ObjectIdIsValid(id) THEN Respond(r, Error(400, "Invalid id"))
          ELSE SetFields(r, [set |-> UpdateSet(c, payload, Date(clock))])]
  /\ UNCHANGED <<env, content, userStore, insights, platformInsights, clock, history>>

\* findOneAndUpdate({ _id }, { $set }, { returnDocument: 'after' })
ContentUpdateApply(p) ==
  /\ req[p].pc = "update"
  /\ req[p].route = "Update"
  /\ LET c == req[p].coll
         i == IndexOfId(db[c], ParseObjectId(req[p].id))
     IN IF i = 0
        THEN /\ req' = [req EXCEPT ![p] = Respond(@, Error(404, NotFound(c)))]
             /\ UNCHANGED db
        ELSE /\ db' = [db EXCEPT ![c][i] = SetFields(@, req[p].set)]
             /\ req' = [req EXCEPT ![p] =
                  Respond(@, [status |-> 200, success |-> TRUE,
                              data |-> mapEvent(db'[c][i])])]
  /\ UNCHANGED <<env, seed, userStore, insights, platformInsights, clock, history>>

\* DELETE: id check, up to deleteOne.
ContentDeleteBegin(p, c, id) ==
  /\ req[p].pc = "idle"
  /\ LET r == [pc |-> "delete", route |-> "Delete", coll |-> c, id |-> id,
               before |-> db[c]]
     IN req' = [req EXCEPT ![p] =
          IF ~ObjectIdIsValid(id) THEN Respond(r, Error(400, "Invalid id")) ELSE r]
  /\ UNCHANGED <<env, content, userStore, insights, platformInsights, clock, history>>

\* ContentDeleteApply answering success whether or not a document matched.
ContentDeleteApplyAlwaysOk(p) ==
  /\ req[p].pc = "delete"
  /\ req[p].route = "Delete"
  /\ LET c == req[p].coll
         i == IndexOfId(db[c], ParseObjectId(req[p].id))
     IN /\ db' = IF i = 0 THEN db ELSE [db EXCEPT ![c] = RemoveAt(@, i)]
        /\ req' = [req EXCEPT ![p] =
             Respond(@, [status |-> 200, success |-> TRUE, deleted |-> 1])]
  /\ UNCHANGED <<env, seed, userStore, insights, platformInsights, clock, history>>

\* deleteOne({ _id })
ContentDeleteApply(p) ==
  /\ req[p].pc = "delete"
  /\ req[p].route = "Delete"
  /\ LET c == req[p].coll
         i == IndexOfId(db[c], ParseObjectId(req[p].id))
     IN IF i = 0
        THEN /\ req' = [req EXCEPT ![p] = Respond(@, Error(404, NotFound(c)))]
             /\ UNCHANGED db
        ELSE /\ db' = [db EXCEPT ![c] = RemoveAt(@, i)]
             /\ req' = [req EXCEPT ![p] =
                  Respond(@, [status |-> 200, success |-> TRUE, deleted |-> 1])]
  /\ UNCHANGED <<env, seed, userStore, insights, platformInsights, clock, history>>

\* GET of the admin list, or of the public list of team members and manuals.
ContentListBegin(p, c, public) ==
  /\ req[p].pc = "idle"
  /\ req' = [req EXCEPT ![p] =
       [pc |-> "find", route |-> IF public THEN "PublicList" ELSE "List",
        coll |-> c, before |-> db[c]]]
  /\ UNCHANGED <<env, content, userStore, insights, platformInsights, clock, history>>

ContentListFind(p) ==
  /\ req[p].pc = "find"
  /\ req[p].route \in {"List", "PublicList"}
  /\ LET docs == Listing(req[p].coll, req[p].route = "PublicList")
     IN req' = [req EXCEPT ![p] =
          Respond(@, [status |-> 200,
                      body |-> [i \in DOMAIN docs |-> mapEvent(docs[i])]])]
  /\ UNCHANGED <<env, content, userStore, insights, platformInsights, clock, history>>

\* ------------------------------------------------------- event categories
\* defaultCategories of the seed script, in the order of the array.
defaultCategories ==
  << [value |-> Str("workshop"), label |-> Str("Workshop"), order |-> Fin(2)],
     [value |-> Str("conference"), label |-> Str("Conference"), order |-> Fin(4)],
     [value |-> Str("seminar"), label |-> Str("Seminar"), order |-> Fin(6)] >>

\* The position of a label among the labels in use, in string order.
LabelRank(label) ==
  CASE label = Str("Conference") -> 1
    [] label = Str("Seminar") -> 2
    [] label = Str("Workshop") -> 3
    [] OTHER -> 4

\* sort({ order: 1, label: 1 }): a comes before b.
CategoryPrecedes(a, b) ==
  \/ OrderLess(a.order, b.order)
  \/ a.order = b.order /\ LabelRank(a.label) < LabelRank(b.label)

RECURSIVE InsertCategory(_, _)
InsertCategory(sorted, doc) ==
  IF sorted = <<>> THEN <<doc>>
  ELSE IF CategoryPrecedes(doc, Head(sorted)) THEN <<doc>> \o sorted
  ELSE <<Head(sorted)>> \o InsertCategory(Tail(sorted), doc)

\* categories.find({}).sort({ order: 1, label: 1 }).toArray()
RECURSIVE SortedCategories(_)
SortedCategories(coll) ==
  IF coll = <<>> THEN <<>>
  ELSE InsertCategory(SortedCategories(SubSeq(coll, 1, Len(coll) - 1)), coll[Len(coll)])

\* The three hardcoded defaults of the listing.
FallbackCategories ==
  << [value |-> Str("workshop"), label |-> Str("Workshop")],
     [value |-> Str("conference"), label |-> Str("Conference")],
     [value |-> Str("seminar"), label |-> Str("Seminar")] >>

\* docs.map((d) => ({ value: d.value, label: d.label }))
MapCategories(docs) ==
  [i \in DOMAIN docs |-> [value |-> docs[i].value, label |-> docs[i].label]]

\* The listing without its branch for an empty result.
CategoriesBodyNoDefaults(docs) == MapCategories(docs)

\* The body of the listing: the defaults when nothing was found.
CategoriesBody(docs) ==
  IF docs = <<>> THEN FallbackCategories ELSE MapCategories(docs)

\* GET /admin-services/events/categories/
CategoriesListBegin(p) ==
  /\ req[p].pc = "idle"
  /\ req' = [req EXCEPT ![p] =
       [pc |-> "find", route |-> "Categories", before |-> db["event_categories"]]]
  /\ UNCHANGED <<env, content, userStore, insights, platformInsights, clock, history>>

CategoriesListFind(p) ==
  /\ req[p].pc = "find"
  /\ req[p].route = "Categories"
  /\ LET docs == SortedCategories(db["event_categories"])
     IN req' = [req EXCEPT ![p] =
          Respond(SetFields(@, [docs |-> docs]),
                  [status |-> 200, body |-> CategoriesBody(docs)])]
  /\ UNCHANGED <<env, content, userStore, insights, platformInsights, clock, history>>

\* ------------------------------------------------------------ seed script
\* mockEvents of the seed script, by title.
mockEvents ==
  << [title |-> Str("e1"), description |-> Str("d1")],
     [title |-> Str("e2"), description |-> Str("d2")],
     [title |-> Str("e3"), description |-> Str("d3")] >>

\* The ObjectId the script's driver gives to the n-th document of a run,
\* apart from the ObjectIds of the server.
SeedObjectId(run, n) == ObjectId(MaxUsers + 6 * (run - 1) + n)

\* node seed-data.cjs: the script connects.
SeedStart ==
  /\ seed.pc = "off"
  /\ seed.runs < MaxSeedRuns
  /\ seed' = [pc |-> "countCategories", runs |-> seed.runs + 1]
  /\ UNCHANGED <<env, db, userStore, insights, platformInsights, clock, req, history>>

\* catCount = await categories.countDocuments()
SeedCountCategories ==
  /\ seed.pc = "countCategories"
  /\ seed' = IF Len(db["event_categories"]) = 0
             THEN SetFields(seed, [pc |-> "insertCategories", n |-> 1])
             ELSE SetFields(seed, [pc |-> "countEvents"])
  /\ UNCHANGED <<env, db, userStore, insights, platformInsights, clock, req, history>>

\* categories.insertMany(defaultCategories): the documents arrive one by one.
SeedInsertCategory ==
  /\ seed.pc = "insertCategories"
  /\ LET doc == SetFields(defaultCategories[seed.n],
                          [_id |-> SeedObjectId(seed.runs, seed.n)])
     IN db' = [db EXCEPT !["event_categories"] = Append(@, doc)]
  /\ seed' = IF seed.n < Len(defaultCategories)
             THEN SetFields(seed, [n |-> seed.n + 1])
             ELSE [pc |-> "countEvents", runs |-> seed.runs]
  /\ UNCHANGED <<env, userStore, insights, platformInsights, clock, req, history>>

\* evtCount = await events.countDocuments(); now = new Date()
SeedCountEvents ==
  /\ seed.pc = "countEvents"
  /\ seed' = IF Len(db["gallery_events"]) = 0
             THEN SetFields(seed, [pc |-> "insertEvents", n |-> 1, now |-> Date(clock)])
             ELSE SetFields(seed, [pc |-> "close"])
  /\ UNCHANGED <<env, db, userStore, insights, platformInsights, clock, req, history>>

\* events.insertMany(mockEvents.map(...)): the documents arrive one by one.
SeedInsertEvent ==
  /\ seed.pc = "insertEvents"
  /\ LET doc == SetFields(mockEvents[seed.n],
                          [createdAt |-> seed.now, updatedAt |-> seed.now,
                           _id |-> SeedObjectId(seed.runs, Len(defaultCategories) + seed.n)])
     IN db' = [db EXCEPT !["gallery_events"] = Append(@, doc)]
  /\ seed' = IF seed.n < Len(mockEvents)
             THEN SetFields(seed, [n |-> seed.n + 1])
             ELSE [pc |-> "close", runs |-> seed.runs]
  /\ UNCHANGED <<env, userStore, insights, platformInsights, clock, req, history>>

\* client.close(): the script ends.
SeedClose ==
  /\ seed.pc = "close"
  /\ seed' = [pc |-> "off", runs |-> seed.runs]
  /\ UNCHANGED <<env, db, userStore, insights, platformInsights, clock, req, history>>

SeedStep ==
  \/ SeedStart
  \/ SeedCountCategories
  \/ SeedInsertCategory
  \/ SeedCountEvents
  \/ SeedInsertEvent
  \/ SeedClose

\* ------------------------------------------------------- storage failures
\* The positions at which a handler awaits a write.
StorageWrites == {"insert", "update", "delete"}

\* Requests whose handler has not answered yet.
Handling == {p \in Reqs : req[p].pc \notin {"idle", "done"}}

\* The error message of the catch block of a route.
FailureMessage(route) ==
  CASE route = "PublicUpsert" -> "Failed to upsert public insights"
    [] route = "PublicGet" -> "Failed to fetch public insights"
    [] route = "UserCreate" -> "Failed to create user"
    [] route = "UserUpdate" -> "Failed to update user"
    [] route = "UserDelete" -> "Failed to delete user"
    [] OTHER -> "Failed"

\* The driver's re-attempts of the request so far, by position.
RetriedBy(r) == IF "retried" \in DOMAIN r THEN r.retried ELSE <<>>

\* A handler without try/catch: the rejection ends it without a response.
StorageFailsUncaught(p) ==
  /\ p \in Handling
  /\ req' = [req EXCEPT ![p] = SetFields(@, [pc |-> "done", failed |-> @.pc])]
  /\ UNCHANGED <<env, content, userStore, insights, platformInsights, clock, history>>

\* The awaited storage call rejects: the catch block of the handler answers
\* 500 with its message, and nothing is stored.
StorageFails(p) ==
  /\ p \in Handling
  /\ req' = [req EXCEPT ![p] =
       Respond(SetFields(@, [failed |-> @.pc]),
               Error(500, FailureMessage(@.route)))]
  /\ UNCHANGED <<env, content, userStore, insights, platformInsights, clock, history>>

\* retryWrites: true: a write that fails with a retryable error is sent once
\* more by the driver before the handler learns of anything.
DriverRetries(p) ==
  /\ p \in Handling
  /\ req[p].pc \in StorageWrites
  /\ \A i \in DOMAIN RetriedBy(req[p]) : RetriedBy(req[p])[i] # req[p].pc
  /\ req' = [req EXCEPT ![p] =
       SetFields(@, [retried |-> Append(RetriedBy(@), @.pc)])]
  /\ UNCHANGED <<env, content, userStore, insights, platformInsights, clock, history>>

\* ------------------------------------------------- users: specifications
UsernameInputs ==
  {Repeat("a", 1), Repeat("A", 1), Repeat("b", 1), Repeat("", 0),
   Repeat(" ", 1), Undefined}

PasswordInputs ==
  {Repeat("p", 8), Repeat("q", 8), Repeat("p", 7), Repeat("", 0), Undefined}

IdInputs == {HexString(ObjectId(i)) : i \in 1..MaxUsers} \cup {Repeat("z", 5)}

UsersInit ==
  /\ deployed = "backend.cjs"
  /\ upsertToken = ""
  /\ server = Serving
  /\ insights = <<>>
  /\ platformInsights = NoDoc
  /\ users = <<>>
  /\ nextId = 1
  /\ ContentEmpty
  /\ clock = 0
  /\ req = [p \in Reqs |-> Idle]
  /\ maxSeen = [total_users |-> Fin(0), total_publications |-> Fin(0)]
  /\ cleanOnly = TRUE

UsersBegin(p) ==
  \E username \in UsernameInputs, password \in PasswordInputs :
    \/ UserCreateBegin(p, username, password)
    \/ \E id \in IdInputs : UserUpdateBegin(p, id, username, password)
    \/ LoginBegin(p, username, password)
    \/ UserListBegin(p)
    \/ \E id \in IdInputs : UserDeleteBegin(p, id)

UsersStep(p) ==
  \/ UserCreateFind(p)
  \/ UserCreateInsert(p)
  \/ UserUpdateFind(p)
  \/ UserUpdateApply(p)
  \/ LoginFind(p)
  \/ UserListFind(p)
  \/ UserDeleteApply(p)

\* User requests are serialized: a request starts only when the one before
\* it has been answered.
UsersSerialNext ==
  \/ Tick
  \/ \E p \in Reqs :
       \/ InFlight = {} /\ p = 1 /\ UsersBegin(p)
       \/ UsersStep(p)
       \/ Close(p)

SpecUsers == UsersInit /\ [][UsersSerialNext]_vars

\* A create or an update under one of the given usernames and passwords.
UserWriteBegin(p, usernames, passwords) ==
  \E username \in usernames, password \in passwords :
    \/ UserCreateBegin(p, username, password)
    \/ \E id \in IdInputs : UserUpdateBegin(p, id, username, password)

\* The usernames and the password of the clients that write concurrently.
RacingUsernames == {Repeat("a", 1), Repeat("b", 1)}

RacingPasswords == {Repeat("p", 8)}

\* NumReqs creates and updates are handled concurrently: they interleave at
\* their storage calls.
UsersConcurrentNext ==
  \/ Tick
  \/ \E p \in Reqs :
       \/ UserWriteBegin(p, RacingUsernames, RacingPasswords)
       \/ UserCreateFind(p)
       \/ UserCreateInsert(p)
       \/ UserUpdateFind(p)
       \/ UserUpdateApply(p)
       \/ Close(p)

SpecUsersConcurrent == UsersInit /\ [][UsersConcurrentNext]_vars

\* Passwords at and around the limits of isValidPassword, the empty string
\* and no password at all.
PasswordLengths ==
  {Repeat("p", n) : n \in {7, 8, 256, 257}} \cup {Repeat("", 0), Undefined}

NamedUsernames == {Repeat("a", 1), Repeat("b", 1), Undefined}

\* Serialized creates and updates with passwords of every interesting length.
PasswordsNext ==
  \/ Tick
  \/ \E p \in Reqs :
       \/ InFlight = {} /\ p = 1 /\ UserWriteBegin(p, NamedUsernames, PasswordLengths)
       \/ UserCreateFind(p)
       \/ UserCreateInsert(p)
       \/ UserUpdateFind(p)
       \/ UserUpdateApply(p)
       \/ Close(p)

SpecPasswords == UsersInit /\ [][PasswordsNext]_vars

\* ----------------------------------------------- content: specifications
\* The server of part_000, which registers every route, on an empty database.
ContentInit ==
  /\ deployed = "part_000"
  /\ upsertToken = ""
  /\ server = Serving
  /\ insights = <<>>
  /\ platformInsights = NoDoc
  /\ users = <<>>
  /\ nextId = 1
  /\ ContentEmpty
  /\ clock = 0
  /\ req = [p \in Reqs |-> Idle]
  /\ maxSeen = [total_users |-> Fin(0), total_publications |-> Fin(0)]
  /\ cleanOnly = TRUE

\* req.body || {} of a request without a body.
EmptyBody == [f \in {} |-> Undefined]

Resources == {"gallery_events", "team_members", "user_manuals"}

\* Bodies that name the record, and the empty body.
NamePayloads(c) == {[f \in {RequiredField(c)} |-> Str("x")], EmptyBody}

\* Creates, updates and deletes by identifier on the three resources.
ResourceBegin(p) ==
  \E c \in Resources :
    \/ \E payload \in NamePayloads(c) : ContentCreateBegin(p, c, payload)
    \/ \E id \in IdInputs, payload \in NamePayloads(c) :
         ContentUpdateBegin(p, c, id, payload)
    \/ \E id \in IdInputs : ContentDeleteBegin(p, c, id)

\* The bodies of the user updates: a new name, a new password, a password
\* that is too short, or nothing.
UserBodies ==
  {<<username, password>> :
     username \in {Repeat("a", 1), Repeat("b", 1), Undefined},
     password \in {Repeat("p", 8), Repeat("p", 7), Undefined}}

UserByIdBegin(p) ==
  \/ \E body \in UserBodies :
       \/ UserCreateBegin(p, body[1], body[2])
       \/ \E id \in IdInputs : UserUpdateBegin(p, id, body[1], body[2])
  \/ \E id \in IdInputs : UserDeleteBegin(p, id)

\* Serialized requests on every resource addressed by identifier.
IdsNext ==
  \/ Tick
  \/ \E p \in Reqs :
       \/ InFlight = {} /\ p = 1 /\ (ResourceBegin(p) \/ UserByIdBegin(p))
       \/ ContentInsert(p)
       \/ ContentUpdateApply(p)
       \/ ContentDeleteApply(p)
       \/ UserCreateFind(p)
       \/ UserCreateInsert(p)
       \/ UserUpdateFind(p)
       \/ UserUpdateApply(p)
       \/ UserDeleteApply(p)
       \/ Close(p)

SpecIds == ContentInit /\ [][IdsNext]_vars

\* What a client sends as published: a boolean, the numbers 1 and 0, or
\* nothing.
PublishedInputs == {Bool(TRUE), Bool(FALSE), Fin(2), Fin(0), Undefined}

\* body with the key when the value is not undefined.
WithField(body, key, val) ==
  IF val = Undefined THEN body ELSE SetFields(body, [f \in {key} |-> val])

Publishable == {"team_members", "user_manuals"}

\* Creates, updates and the two listings of team members and manuals.
PublishedBegin(p) ==
  \E c \in Publishable :
    \/ \E published \in PublishedInputs :
         \/ ContentCreateBegin(p, c,
              WithField([f \in {RequiredField(c)} |-> Str("x")], "published", published))
         \/ \E id \in IdInputs :
              ContentUpdateBegin(p, c, id, WithField(EmptyBody, "published", published))
    \/ \E public \in BOOLEAN : ContentListBegin(p, c, public)

\* Serialized requests on team members and manuals.
PublishedNext ==
  \/ Tick
  \/ \E p \in Reqs :
       \/ InFlight = {} /\ p = 1 /\ PublishedBegin(p)
       \/ ContentInsert(p)
       \/ ContentUpdateApply(p)
       \/ ContentListFind(p)
       \/ Close(p)

SpecPublished == ContentInit /\ [][PublishedNext]_vars

\* Event writes of the service: create, update and delete.
EventBegin(p) ==
  \/ \E payload \in NamePayloads("gallery_events") :
       \/ ContentCreateBegin(p, "gallery_events", payload)
       \/ \E id \in IdInputs : ContentUpdateBegin(p, "gallery_events", id, payload)
  \/ \E id \in IdInputs : ContentDeleteBegin(p, "gallery_events", id)

\* Category listings in any slot, event writes in the first, and the seed
\* script run beside the server, within one reading of the clock.
CategoriesNext ==
  \/ SeedStep
  \/ \E p \in Reqs :
       \/ CategoriesListBegin(p)
       \/ CategoriesListFind(p)
       \/ p = 1 /\ EventBegin(p)
       \/ ContentInsert(p)
       \/ ContentUpdateApply(p)
       \/ ContentDeleteApply(p)
       \/ Close(p)

SpecCategories == ContentInit /\ [][CategoriesNext]_vars

\* Bodies of a create: the required field, with order and published given,
\* mistyped or left out.
CreateBodies(c) ==
  {WithField(WithField([f \in {RequiredField(c)} |-> Str("x")], "order", order),
             "published", published) :
     order \in {Undefined, Str("abc"), Fin(4)}, published \in {Undefined, Fin(0)}}

\* Bodies of an update: keys of the allowlist, keys outside it, and both.
UpdateBodies(c) ==
  { [f \in {RequiredField(c)} |-> Str("y")],
    [order |-> Str("abc")],
    [order |-> Fin(4)],
    [published |-> Str("no")],
    [_id |-> Str("z"), createdAt |-> Str("z"), bogus |-> Str("z")],
    SetFields([f \in {RequiredField(c)} |-> Str("y")],
              [_id |-> Str("z"), bogus |-> Str("z")]) }

\* Creates and updates of events, team members and manuals.
UpdatesBegin(p) ==
  \E c \in Resources :
    \/ \E payload \in CreateBodies(c) : ContentCreateBegin(p, c, payload)
    \/ \E id \in IdInputs, payload \in UpdateBodies(c) :
         ContentUpdateBegin(p, c, id, payload)

\* Serialized creates and updates with payloads of every kind.
UpdatesNext ==
  \/ Tick
  \/ \E p \in Reqs :
       \/ InFlight = {} /\ p = 1 /\ UpdatesBegin(p)
       \/ ContentInsert(p)
       \/ ContentUpdateApply(p)
       \/ Close(p)

SpecUpdates == ContentInit /\ [][UpdatesNext]_vars

\* ----------------------------------------------- process: specifications
\* node backend.cjs on an empty database: nothing connected yet.
ProcessInit ==
  /\ deployed = "backend.cjs"
  /\ upsertToken = ""
  /\ server = Starting
  /\ insights = <<>>
  /\ platformInsights = NoDoc
  /\ users = <<>>
  /\ nextId = 1
  /\ ContentEmpty
  /\ clock = 0
  /\ req = [p \in Reqs |-> Idle]
  /\ maxSeen = [total_users |-> Fin(0), total_publications |-> Fin(0)]
  /\ cleanOnly = TRUE

\* Startup, SIGINT, and the listings of categories and users served while
\* the process listens; a process that has exited takes no step.
ProcessNext ==
  \/ ConnectResolves
  \/ ConnectRejects
  \/ Sigint
  \/ CloseResolves
  \/ CloseThrows
  \/ SigintExit
  \/ \E p \in Reqs :
       /\ server.proc = "running"
       /\ \/ server.listening /\ (CategoriesListBegin(p) \/ UserListBegin(p))
          \/ CategoriesListFind(p)
          \/ UserListFind(p)
          \/ Close(p)

SpecProcess == ProcessInit /\ [][ProcessNext]_vars

\* Upserts of the public insights, and creates and deletes of users.
FailuresBegin(p) ==
  \/ \E rawU \in NatInputs : PublicUpsertBegin(p, "", rawU, Fin(0))
  \/ UserCreateBegin(p, Repeat("a", 1), Repeat("p", 8))
  \/ \E id \in IdInputs : UserDeleteBegin(p, id)

\* One request is handled at a time, in any slot; each of its storage calls
\* succeeds, fails, or, for a write, is sent once more by the driver.
FailuresNext ==
  \/ Tick
  \/ \E p \in Reqs :
       \/ Handling = {} /\ FailuresBegin(p)
       \/ PublicFind(p)
       \/ PublicInsert(p)
       \/ PublicUpdate(p)
       \/ PublicLatest(p)
       \/ UserCreateFind(p)
       \/ UserCreateInsert(p)
       \/ UserDeleteApply(p)
       \/ StorageFails(p)
       \/ DriverRetries(p)
       \/ Close(p)

SpecFailures == ContentInit /\ [][FailuresNext]_vars

\* ----------------------------------------------------------- users: claims
TargetOf(r) == IF ObjectIdIsValid(r.id) THEN {ParseObjectId(r.id)} ELSE {}

\* The request of r names a user of coll as the one to update.
UpdatesExisting(r, coll) ==
  r.route = "UserUpdate" /\ \E oid \in TargetOf(r) : IndexOfId(coll, oid) # 0

\* C9 as stated: with serialized requests, creating a user under a username
\* an existing user has, or updating a user to a username another user has,
\* is answered 409 and leaves the collection as it was; updating a user to
\* its own username is no conflict.
C9_DuplicateUsernameIs409 ==
  \A p \in Reqs :
    Completed(p) =>
      LET r == req[p] IN
      /\ (r.route = "UserCreate" /\ HeldBy(r.before, r.username) # {}) =>
           (r.resp.status = 409 /\ users = r.before)
      /\ (UpdatesExisting(r, r.before)
            /\ HeldBy(r.before, r.username) \ TargetOf(r) # {}) =>
           (r.resp.status = 409 /\ users = r.before)
      /\ (UpdatesExisting(r, r.before)
            /\ HeldBy(r.before, r.username) = TargetOf(r)) =>
           r.resp.status # 409

\* C9 as amended: the create is answered 409 when its password has a valid
\* length and 400 when it has not, the collection unchanged either way.
C9_DuplicateUsernameIs409OrInvalid ==
  \A p \in Reqs :
    Completed(p) =>
      LET r == req[p] IN
      /\ (r.route = "UserCreate" /\ HeldBy(r.before, r.username) # {}) =>
           /\ r.resp.status = IF isValidPassword(r.password) THEN 409 ELSE 400
           /\ users = r.before
      /\ (UpdatesExisting(r, r.before)
            /\ HeldBy(r.before, r.username) \ TargetOf(r) # {}) =>
           (r.resp.status = 409 /\ users = r.before)
      /\ (UpdatesExisting(r, r.before)
            /\ HeldBy(r.before, r.username) = TargetOf(r)) =>
           r.resp.status # 409

\* User "A" exists beside user "a": renaming "A" to "a" has been refused.
C9_Witness ==
  \E p \in Reqs :
    /\ Completed(p) /\ UpdatesExisting(req[p], users)
    /\ req[p].username = Repeat("a", 1)
    /\ HeldBy(users, Repeat("A", 1)) = TargetOf(req[p])
    /\ HeldBy(users, Repeat("a", 1)) # {}
    /\ req[p].resp = Error(409, "Username already exists")

StringInputs(S) == {v \in S : v.k = "string"}

\* The login with this pair fails: no such user, or not the user's password.
LoginFails(coll, username, password) ==
  \/ HeldBy(coll, username) = {}
  \/ \E i \in DOMAIN coll :
       /\ coll[i].username = username
       /\ ~BcryptCompare(password, coll[i].passwordHash)

\* C10: a login that fails is answered the same whether the username does
\* not exist or the password is wrong: the response of any failed login
\* equals the response to every other failing username/password pair.
C10_LoginFailuresIndistinguishable ==
  \A p \in Reqs :
    (/\ Completed(p) /\ req[p].route = "Login"
     /\ req[p].username.k = "string" /\ req[p].password.k = "string"
     /\ LoginFails(users, req[p].username, req[p].password)) =>
      \A u \in StringInputs(UsernameInputs), pw \in StringInputs(PasswordInputs) :
        LoginFails(users, u, pw) =>
          req[p].resp = LoginOutcome(FindByUsername(users, u), pw)

\* A login under an existing username with a wrong password has been
\* refused while another username does not exist.
C10_Witness ==
  \E p \in Reqs :
    /\ Completed(p) /\ req[p].route = "Login"
    /\ HeldBy(users, req[p].username) # {}
    /\ req[p].resp.status = 401
    /\ \E u \in StringInputs(UsernameInputs) : HeldBy(users, u) = {}

\* C17: no two records of the users collection carry the same username,
\* under any interleaving of concurrent creates and updates.
C17_UsernamesUnique ==
  \A i \in DOMAIN users, j \in DOMAIN users :
    i # j => users[i].username # users[j].username

UserRoutes == {"UserList", "UserCreate", "UserUpdate", "UserDelete", "Login"}

\* The user records a response carries.
UsersIn(resp) ==
  IF "data" \in DOMAIN resp THEN {resp.data}
  ELSE IF "body" \in DOMAIN resp THEN {resp.body[i] : i \in DOMAIN resp.body}
  ELSE {}

\* C11: no response of a user endpoint carries a password or passwordHash:
\* every user record in a response has exactly the fields id, username,
\* createdAt, updatedAt; and a stored user record holds the bcrypt hash,
\* never the plaintext password.
C11_NoPasswordInResponses ==
  /\ \A p \in Reqs :
       (Completed(p) /\ req[p].route \in UserRoutes) =>
         /\ DOMAIN req[p].resp \cap {"password", "passwordHash"} = {}
         /\ \A u \in UsersIn(req[p].resp) :
              DOMAIN u = {"id", "username", "createdAt", "updatedAt"}
  /\ \A i \in DOMAIN users :
       /\ DOMAIN users[i] =
            {"_id", "username", "passwordHash", "createdAt", "updatedAt"}
       /\ users[i].passwordHash.k = "bcrypt"
       /\ \A f \in DOMAIN users[i] : users[i][f] \notin StringInputs(PasswordInputs)

\* The list has answered with the two users created before.
C11_Witness ==
  \E p \in Reqs :
    /\ Completed(p) /\ req[p].route = "UserList"
    /\ Len(req[p].resp.body) = 2
    /\ Len(users) = 2

\* A string whose length is outside 8..256.
OutOfRange(pw) == pw.k = "string" /\ (pw.n < 8 \/ pw.n > 256)

\* The create of r names a username that is valid and that nobody holds.
CreatesFresh(r) ==
  /\ r.route = "UserCreate"
  /\ r.username \in {Repeat("a", 1), Repeat("b", 1)}
  /\ HeldBy(r.before, r.username) = {}

IdRoutes == {"Update", "Delete", "UserUpdate", "UserDelete"}

\* The collection the request of r addresses, as it is now.
StoreOf(r) == IF r.route \in {"UserUpdate", "UserDelete"} THEN users ELSE db[r.coll]

\* The identifier of r is well-formed and no record had it when r arrived.
Unknown(r) ==
  ObjectIdIsValid(r.id) /\ IndexOfId(r.before, ParseObjectId(r.id)) = 0

\* The body of a user update that the handler refuses on its own account.
BodyRefused(r) ==
  /\ r.route = "UserUpdate"
  /\ \/ r.username # Undefined /\ ~isValidUsername(r.username)
     \/ HeldBy(r.before, r.username) \ TargetOf(r) # {}
     \/ r.password \notin {Undefined, Repeat("", 0)} /\ ~isValidPassword(r.password)

\* A malformed identifier is answered 400 by the step that takes the request
\* in, before any storage call.
MalformedIdAnsweredAtOnce ==
  [][\A p \in Reqs :
       (/\ req'[p].route \in IdRoutes
        /\ req'[p].pc = "done" /\ req[p].pc # "done"
        /\ ~ObjectIdIsValid(req'[p].id)) =>
         /\ req[p].pc = "idle"
         /\ req'[p].resp = Error(400, "Invalid id")
         /\ users' = users /\ db' = db]_vars

\* C13 as stated: update and delete of an event, team member, manual or user
\* answer 400 to a malformed identifier without a storage lookup and 404 to
\* a well-formed one that matches no record, the collection unchanged.
C13_BadIdIs400UnknownIs404 ==
  /\ MalformedIdAnsweredAtOnce
  /\ [](\A p \in Reqs :
          (Completed(p) /\ req[p].route \in IdRoutes /\ Unknown(req[p])) =>
            (req[p].resp.status = 404 /\ StoreOf(req[p]) = req[p].before))

\* C13 as amended: a user update whose body the handler refuses is answered
\* 400 or 409 before the identifier is looked up.
C13_BadIdIs400UnknownIs404UnlessBodyRefused ==
  /\ MalformedIdAnsweredAtOnce
  /\ [](\A p \in Reqs :
          (Completed(p) /\ req[p].route \in IdRoutes /\ Unknown(req[p])) =>
            /\ IF BodyRefused(req[p])
               THEN req[p].resp.status \in {400, 409}
               ELSE req[p].resp.status = 404
            /\ StoreOf(req[p]) = req[p].before)

\* The second delete of a manual that was created and deleted: 404.
C13_Witness ==
  \E p \in Reqs :
    /\ Completed(p) /\ req[p].route = "Delete" /\ req[p].coll = "user_manuals"
    /\ req[p].id = HexString(ObjectId(1))
    /\ nextId = 2
    /\ db["user_manuals"] = <<>>
    /\ req[p].resp = Error(404, "Manual not found")

\* The ids of the records a listing answered with.
IdsIn(body) == {body[i].id : i \in DOMAIN body}

\* The visibility last requested for a stored record: create stores
\* !!published (true when omitted) and update stores the value it was given,
\* so the stored value is truthy exactly when the last request asked for on.
RequestedOn(doc) == Truthy(doc.published)

\* C15: the public listing of team members, and of manuals, answers exactly
\* the records whose visibility was last requested as on; the admin listing
\* answers all records.
C15_PublicListingShowsRequestedOn ==
  \A p \in Reqs :
    (Completed(p) /\ req[p].route \in {"List", "PublicList"}) =>
      LET coll == db[req[p].coll]
          shown == IdsIn(req[p].resp.body)
      IN IF req[p].route = "List"
         THEN shown = {HexString(coll[i]._id) : i \in DOMAIN coll}
         ELSE shown = {HexString(coll[i]._id) :
                         i \in {j \in DOMAIN coll : RequestedOn(coll[j])}}

\* A category listing answers in this step.
CategoriesAnswer(p) ==
  /\ req[p].pc = "find"
  /\ req[p].route = "Categories"
  /\ req'[p].pc = "done"

\* The listing in slot p has answered.
CategoriesListed(p) == req[p].pc = "done" /\ req[p].route = "Categories"

\* C14: a category listing that finds the collection empty answers exactly
\* workshop, conference, seminar in that order, and the step that answers
\* leaves every collection as it was; a collection that holds a category
\* keeps holding one whatever the service and the seed script do; and a
\* listing that arrived when the collection held a category found documents
\* and answers with them, not through the branch of the defaults.
C14_DefaultsOnlyWhileEmpty ==
  /\ [](\A p \in Reqs :
          CategoriesListed(p) =>
            /\ req[p].docs = <<>> =>
                 /\ req[p].resp.body = FallbackCategories
                 /\ [i \in 1..3 |-> req[p].resp.body[i].value]
                      = <<Str("workshop"), Str("conference"), Str("seminar")>>
            /\ req[p].before # <<>> =>
                 /\ req[p].docs # <<>>
                 /\ req[p].resp.body = MapCategories(req[p].docs))
  /\ [][(\A p \in Reqs : CategoriesAnswer(p) => db' = db)
        /\ (db["event_categories"] # <<>> => db'["event_categories"] # <<>>)]_vars

\* One listing has answered with the defaults on an empty collection, another
\* has answered with the three seeded categories, and events have been
\* written by the service since.
C14_Witness ==
  /\ \E p \in Reqs :
       /\ CategoriesListed(p)
       /\ req[p].docs = <<>>
       /\ req[p].resp.body = FallbackCategories
  /\ \E p \in Reqs :
       /\ CategoriesListed(p)
       /\ req[p].before # <<>>
       /\ Len(req[p].docs) = 3
       /\ req[p].resp.body = MapCategories(req[p].docs)
  /\ nextId > 1
  /\ seed.runs = MaxSeedRuns

\* The stored records of the four resources that carry timestamps.
Stamped ==
  {users[i] : i \in DOMAIN users}
    \cup UNION {{db[c][i] : i \in DOMAIN db[c]} : c \in Resources}

\* The record of identifier oid before and after the step.
StampedBefore(oid) == CHOOSE d \in Stamped : d._id = oid

StampedAfter(oid) == CHOOSE d \in Stamped' : d._id = oid

\* An update request matches a stored record in this step.
UpdateMatches(p) ==
  /\ req[p].pc = "update"
  /\ req[p].route \in {"Update", "UserUpdate"}
  /\ req'[p].pc = "done"
  /\ req'[p].resp.status = 200

\* C21: a record enters its collection with createdAt equal to updatedAt; no
\* step changes the createdAt of a stored record; an update that matches a
\* record leaves it with the updatedAt read when that request was handled;
\* and in every state every stored record has updatedAt >= createdAt.
C21_TimestampsOrdered ==
  /\ [](\A d \in Stamped : d.updatedAt.t >= d.createdAt.t)
  /\ [][/\ \A d \in Stamped' :
             IF \E e \in Stamped : e._id = d._id
             THEN d.createdAt = StampedBefore(d._id).createdAt
             ELSE d.createdAt = d.updatedAt
        /\ \A p \in Reqs :
             UpdateMatches(p) =>
               StampedAfter(ParseObjectId(req[p].id)).updatedAt = req[p].set.updatedAt]_vars

\* The update in slot p reaches storage in this step.
UpdateApplies(p) ==
  /\ req[p].pc = "update"
  /\ req[p].route = "Update"
  /\ req'[p].pc = "done"

\* The fields an update may change: updatedAt and the keys of the body that
\* are in the allowlist of the resource.
MayChange(r) == {"updatedAt"} \cup (DOMAIN r.payload \cap Allowed(r.coll))

\* doc after the step differs from doc before it in the fields of keys only.
SameExcept(old, new, keys) ==
  /\ DOMAIN new \ keys = DOMAIN old \ keys
  /\ \A f \in DOMAIN old \ keys : new[f] = old[f]

\* C22: when an update reaches storage, the other collections and the users
\* stay as they were, the collection keeps its length, every record but the
\* target is unchanged, and the target differs from what it was only in
\* updatedAt and in the fields that the body names and the allowlist holds:
\* its _id, its createdAt and every field outside the allowlist are kept, and
\* no key outside the allowlist is added.
C22_UpdateChangesOnlyAllowedFields ==
  [][\A p \in Reqs :
       UpdateApplies(p) =>
         LET c == req[p].coll
         IN /\ users' = users
            /\ \A other \in Collections \ {c} : db'[other] = db[other]
            /\ Len(db'[c]) = Len(db[c])
            /\ \A i \in DOMAIN db[c] :
                 IF db[c][i]._id = ParseObjectId(req[p].id)
                 THEN SameExcept(db[c][i], db'[c][i], MayChange(req[p]))
                 ELSE db'[c][i] = db[c][i]]_vars

\* An update whose body names the record and carries _id and bogus has
\* answered 200 for a stored record.
C22_Witness ==
  \E p \in Reqs :
    /\ req[p].pc = "done"
    /\ req[p].route = "Update"
    /\ req[p].resp.status = 200
    /\ {"_id", "bogus", RequiredField(req[p].coll)} \subseteq DOMAIN req[p].payload
    /\ \E i \in DOMAIN db[req[p].coll] :
         /\ db[req[p].coll][i]._id = ParseObjectId(req[p].id)
         /\ db[req[p].coll][i][RequiredField(req[p].coll)] = Str("y")
         /\ "bogus" \notin DOMAIN db[req[p].coll][i]

\* C23: every stored team member and manual has a finite number as order and
\* a boolean as published.
C23_OrderFinitePublishedBoolean ==
  \A c \in Publishable : \A i \in DOMAIN db[c] :
    /\ IsFinite(db[c][i].order)
    /\ db[c][i].published.k = "boolean"

\* Listening starts with the connection open and the handle assigned, a
\* handler runs only with the handle assigned, a failed connection attempt
\* ends the process without its ever listening, and a process that has
\* exited does nothing more.
StartupOrdered ==
  /\ [](server.listening => server.db = "set")
  /\ [](InFlight # {} => server.db = "set")
  /\ [](server.conn = "failed" => server.proc = "exited(1)" /\ ~server.listening)
  /\ [][/\ (~server.listening /\ server'.listening) => server'.conn = "open"
        /\ server.proc # "running" => server' = server]_vars

\* C24: the process listens only once the connection is established and the
\* db handle assigned, handlers run only with the handle assigned, a failed
\* connection attempt exits the process, which never listens, and a process
\* that has exited on SIGINT has its connection closed.
C24_ListenAfterConnectCloseBeforeExit ==
  /\ StartupOrdered
  /\ [](server.proc = "exited(0)" => server.conn = "closed")

\* C24 as the code has it: the process exits on SIGINT only after
\* client.close() has settled, with the connection closed when close()
\* resolved; when close() threw, the error is swallowed and the process
\* exits all the same.
C24_ListenAfterConnectCloseSettledBeforeExit ==
  /\ StartupOrdered
  /\ [](server.proc = "exited(0)" =>
          /\ server.sigint \in {"closed", "threw"}
          /\ server.sigint = "closed" => server.conn = "closed")

\* The process has served a request and has exited on SIGINT after close()
\* resolved.
C24_Witness ==
  /\ server.proc = "exited(0)"
  /\ server.sigint = "closed"
  /\ server.conn = "closed"
  /\ server.listening
  /\ \E p \in Reqs : req[p].pc = "done" /\ req[p].resp.status = 200

\* A request has its response exactly when its handler has ended, a response
\* once sent is not replaced, a handler whose storage call failed has
\* answered 500 with a JSON error, and the process goes on serving.
OneResponseEach ==
  /\ [](\A p \in Reqs :
          /\ (req[p].pc = "done") <=> ("resp" \in DOMAIN req[p])
          /\ "failed" \in DOMAIN req[p] =>
               /\ req[p].pc = "done"
               /\ req[p].resp.status = 500
               /\ "error" \in DOMAIN req[p].resp)
  /\ [](server = Serving)
  /\ [][\A p \in Reqs :
          "resp" \in DOMAIN req[p] => (req'[p] = req[p] \/ req'[p] = Idle)]_vars

=============================================================================
